---- MODULE Spec2Model ----
(***************************************************************************)
(* A model of app.py, the laundromat acquisition dashboard: the location   *)
(* classifier, the keyword extractor, the opportunity scorer, the          *)
(* financial step, the ranking sort, the sidebar filters and the KPIs.     *)
(*                                                                         *)
(* Units.  Latitude and longitude are integers in thousandths of a degree  *)
(* (41.933 is 41933).  MatchScore, OpportunityScore and CapRate (%) are    *)
(* integers in hundredths (1.0 is 100, 25.5 is 2550, 20.00 % is 2000).     *)
(* A text (Price, CashFlow) is a sequence of one-character strings.  A     *)
(* Description is a sequence of phrases.  A DataFrame is a sequence of     *)
(* rows, each row a record that carries its pandas row label as `index`.   *)
(* A Python exception is the record [exc |-> name].                        *)
(***************************************************************************)
EXTENDS Integers, Sequences, FiniteSets, TLC

VARIABLES
    pc,              \* position in the script / in the step being run
    data,            \* argument of run_acquisition_engine
    processed_data,  \* the list built by the loop of run_acquisition_engine
    df_targets,      \* the frame returned by run_acquisition_engine
    criteria,        \* the four sidebar controls
    df_filtered,     \* the frame after "Apply Filters"
    kpi,             \* the four st.metric values
    raised,          \* the uncaught exception, "None" if there is none
    arg,             \* argument of the function being applied
    ret              \* its return value

vars == <<pc, data, processed_data, df_targets, criteria, df_filtered, kpi,
          raised, arg, ret>>

----------------------------------------------------------------------------
(* Bounds of the model *)

\* longest raw-listing sequence handed to the engine
MaxListings == 2
\* longest Price / CashFlow text given to the financial step
MaxTextLen == 2
\* margin, in thousandths of a degree, of the classifier's grid around the boxes
GeoMargin == 10

----------------------------------------------------------------------------
(* Configuration *)

TARGET_NEIGHBORHOODS == <<"Logan Square", "Avondale", "Hermosa">>

WEIGHTS ==
    [RealEstateIncluded |-> 40, LocationMatch |-> 30,
     SellerMotivation |-> 20, HighCapacity |-> 10]

None == [none |-> TRUE]

\* a Python result is a record: an exception is [exc |-> name], a number is
\* [val |-> n], a dict is the record of its keys
Exception(name) == [exc |-> name]

Value(n) == [val |-> n]

IsException(v) == "exc" \in DOMAIN v

Range(s) == {s[k] : k \in DOMAIN s}

BoundedSeq(S, n) == UNION {[1..m -> S] : m \in 0..n}

----------------------------------------------------------------------------
(* automated_geocoding *)

\* the Avondale box tested before the Logan Square box
automated_geocoding_avondale_first(location_text, lat, long) ==
    IF 41920 <= lat /\ lat <= 41930 /\ -87740 <= long /\ long <= -87720
    THEN [Neighborhood |-> "Avondale", MatchScore |-> 90]
    ELSE IF 41920 <= lat /\ lat <= 41940 /\ -87730 <= long /\ long <= -87700
    THEN [Neighborhood |-> "Logan Square", MatchScore |-> 100]
    ELSE IF 41900 <= lat /\ lat <= 41920 /\ -87750 <= long /\ long <= -87730
    THEN [Neighborhood |-> "Hermosa", MatchScore |-> 85]
    ELSE [Neighborhood |-> "Outside Target", MatchScore |-> 0]

\* first-match-wins; a MatchScore of 0.9 is 90
automated_geocoding(location_text, lat, long) ==
    IF 41920 <= lat /\ lat <= 41940 /\ -87730 <= long /\ long <= -87700
    THEN [Neighborhood |-> "Logan Square", MatchScore |-> 100]
    ELSE IF 41920 <= lat /\ lat <= 41930 /\ -87740 <= long /\ long <= -87720
    THEN [Neighborhood |-> "Avondale", MatchScore |-> 90]
    ELSE IF 41900 <= lat /\ lat <= 41920 /\ -87750 <= long /\ long <= -87730
    THEN [Neighborhood |-> "Hermosa", MatchScore |-> 85]
    ELSE [Neighborhood |-> "Outside Target", MatchScore |-> 0]

\* A Python call of automated_geocoding with the positional arguments args:
\* the function has three required parameters, any other count is a TypeError.
call_automated_geocoding(args) ==
    IF Len(args) = 3
    THEN automated_geocoding(args[1], args[2], args[3])
    ELSE Exception("TypeError")

----------------------------------------------------------------------------
(* automated_nlp_analysis *)

\* str.lower() on the phrases of the model's vocabulary
lower_phrase(p) ==
    CASE p = "Real estate included" -> "real estate included"
      [] p = "Owner retiring" -> "owner retiring"
      [] p = "Older machines" -> "older machines"
      [] p = "Fully updated" -> "fully updated"
      [] p = "No real estate" -> "no real estate"
      [] p = "Real estate not included" -> "real estate not included"
      [] OTHER -> p

lower(description) == [k \in DOMAIN description |-> lower_phrase(description[k])]

\* re.search of an alternation of literal phrases: some phrase of the text is
\* one of the alternatives
re_search(alternatives, text) == \E k \in DOMAIN text : text[k] \in alternatives

automated_nlp_analysis(description) ==
    LET re_included ==
            re_search({"real estate included", "building included",
                       "property included"}, lower(description))
        motivated ==
            re_search({"owner retiring", "needs quick sale", "moving out of state",
                       "must sell", "quick exit"}, lower(description))
        old_equipment ==
            re_search({"old equipment", "older machines", "ready for upgrade",
                       "inefficient machines"}, lower(description))
        high_capacity ==
            re_search({"high-capacity", "modern equipment", "fully updated"},
                      lower(description))
    IN  [RealEstateIncluded |-> re_included,
         SellerMotivation |-> motivated,
         OldEquipment |-> old_equipment,
         HighCapacity |-> high_capacity]

----------------------------------------------------------------------------
(* calculate_opportunity_score *)

\* round(score, 2): every term of the score is a whole number of hundredths
\* (a weight times a two-decimal MatchScore, or a whole weight), and the score is
\* held in hundredths, so the rounding removes float noise only
round_score(score) == score

\* OldEquipment and HighCapacity each adding the HighCapacity weight
calculate_opportunity_score_both_signals(listing) ==
    (IF listing.Neighborhood \in Range(TARGET_NEIGHBORHOODS)
     THEN WEIGHTS.LocationMatch * listing.MatchScore ELSE 0)
    + (IF listing.RealEstateIncluded THEN WEIGHTS.RealEstateIncluded * 100 ELSE 0)
    + (IF listing.SellerMotivation THEN WEIGHTS.SellerMotivation * 100 ELSE 0)
    + (IF listing.OldEquipment THEN WEIGHTS.HighCapacity * 100 ELSE 0)
    + (IF listing.HighCapacity THEN WEIGHTS.HighCapacity * 100 ELSE 0)

\* the location term added without the test of the neighborhood
calculate_opportunity_score_any_neighborhood(listing) ==
    WEIGHTS.LocationMatch * listing.MatchScore
    + (IF listing.RealEstateIncluded THEN WEIGHTS.RealEstateIncluded * 100 ELSE 0)
    + (IF listing.SellerMotivation THEN WEIGHTS.SellerMotivation * 100 ELSE 0)
    + (IF listing.OldEquipment \/ listing.HighCapacity
       THEN WEIGHTS.HighCapacity * 100 ELSE 0)

calculate_opportunity_score(listing) ==
    LET score0 == 0
        \* 1. Location Score
        score1 == IF listing.Neighborhood \in Range(TARGET_NEIGHBORHOODS)
                  THEN score0 + WEIGHTS.LocationMatch * listing.MatchScore
                  ELSE score0
        \* 2. Real Estate Score
        score2 == IF listing.RealEstateIncluded
                  THEN score1 + WEIGHTS.RealEstateIncluded * 100
                  ELSE score1
        \* 3. Seller Motivation Score
        score3 == IF listing.SellerMotivation
                  THEN score2 + WEIGHTS.SellerMotivation * 100
                  ELSE score2
        \* 4. Concept Potential Score
        score4 == IF listing.OldEquipment \/ listing.HighCapacity
                  THEN score3 + WEIGHTS.HighCapacity * 100
                  ELSE score3
    IN  round_score(score4)

----------------------------------------------------------------------------
(* Step 4 of run_acquisition_engine: the financial metrics *)

Digits == {"0", "1", "2", "3", "4", "5", "6", "7", "8", "9"}

DigitValue(c) ==
    CASE c = "0" -> 0 [] c = "1" -> 1 [] c = "2" -> 2 [] c = "3" -> 3
      [] c = "4" -> 4 [] c = "5" -> 5 [] c = "6" -> 6 [] c = "7" -> 7
      [] c = "8" -> 8 [] c = "9" -> 9

\* str.replace(ch, '')
replace_with_empty(text, ch) == SelectSeq(text, LAMBDA c : c # ch)

RECURSIVE DecimalValue(_)
DecimalValue(text) ==
    IF text = <<>> THEN 0
    ELSE 10 * DecimalValue(SubSeq(text, 1, Len(text) - 1)) + DigitValue(text[Len(text)])

\* float(text) on texts of digits, "$", "," and letters: a non-empty run of
\* digits parses to its value, anything else is a ValueError
float(text) ==
    IF text # <<>> /\ \A k \in DOMAIN text : text[k] \in Digits
    THEN Value(DecimalValue(text))
    ELSE Exception("ValueError")

\* round(x, 2) of x = n / d in hundredths: the integer nearest to n / d, d > 0,
\* n >= 0.  An exact half goes to the even neighbour; in binary floating point
\* it could go to either, and no Price and CashFlow of the inputs below meet in one.
RoundHalfEven(n, d) ==
    LET q == n \div d
        r == n % d
    IN  IF 2 * r < d THEN q
        ELSE IF 2 * r > d THEN q + 1
        ELSE IF q % 2 = 0 THEN q ELSE q + 1

\* lines 96-101: the cap rate in hundredths of a percent, or the exception that
\* leaves the try statement (only ValueError is caught)
financial_step(listing) ==
    LET cf == float(replace_with_empty(replace_with_empty(listing.CashFlow, "$"), ","))
        price == float(replace_with_empty(replace_with_empty(listing.Price, "$"), ","))
    IN  IF IsException(cf) THEN Value(0)
        ELSE IF IsException(price) THEN Value(0)
        ELSE IF price.val = 0 THEN Exception("ZeroDivisionError")
        ELSE Value(RoundHalfEven(10000 * cf.val, price.val))

----------------------------------------------------------------------------
(* run_acquisition_engine *)

\* lines 86-101 of the loop body, for a listing whose geo_data is at hand:
\* {**listing, **geo_data, **nlp_data}, then OpportunityScore and CapRate (%)
\* (the field CapRate); an exception of the financial step leaves the loop
processed_listing(listing, geo_data) ==
    LET nlp_data == automated_nlp_analysis(listing.Description)
        combined == nlp_data @@ geo_data @@ listing
        scored == ("OpportunityScore" :> calculate_opportunity_score(combined)) @@ combined
        cap == financial_step(scored)
    IN  IF IsException(cap) THEN cap
        ELSE ("CapRate" :> cap.val) @@ scored

\* lines 82-103: the loop, from listing k on, acc being processed_data so far;
\* line 84 calls automated_geocoding with two positional arguments
RECURSIVE engine_loop(_, _, _)
engine_loop(listings, k, acc) ==
    IF k > Len(listings) THEN [processed_data |-> acc]
    ELSE LET listing == listings[k]
             geo_data == call_automated_geocoding(<<listing.Lat, listing.Long>>)
         IN  IF IsException(geo_data) THEN geo_data
             ELSE LET pl == processed_listing(listing, geo_data)
                  IN  IF IsException(pl) THEN pl
                      ELSE engine_loop(listings, k + 1, Append(acc, pl))

\* pd.DataFrame(list of dicts): row k gets the label k - 1
DataFrame(rows) == [k \in DOMAIN rows |-> ("index" :> (k - 1)) @@ rows[k]]

\* row a sorts strictly before row b: OpportunityScore descending, then CapRate
\* descending
SortsBefore(a, b) ==
    \/ a.OpportunityScore > b.OpportunityScore
    \/ a.OpportunityScore = b.OpportunityScore /\ a.CapRate > b.CapRate

\* x goes behind every row that does not sort strictly after it.  The rows
\* before x's place are those of key >= x's, a prefix of the sorted frame.
InsertStable(sorted, x) ==
    LET n == Cardinality({j \in DOMAIN sorted : ~SortsBefore(x, sorted[j])})
    IN  SubSeq(sorted, 1, n) \o <<x>> \o SubSeq(sorted, n + 1, Len(sorted))

\* x goes in front of the rows of equal key: what an unstable sort may do
InsertUnstable(sorted, x) ==
    LET n == Cardinality({j \in DOMAIN sorted : SortsBefore(sorted[j], x)})
    IN  SubSeq(sorted, 1, n) \o <<x>> \o SubSeq(sorted, n + 1, Len(sorted))

RECURSIVE sort_values_unstable(_)
sort_values_unstable(df) ==
    IF df = <<>> THEN <<>>
    ELSE InsertUnstable(sort_values_unstable(SubSeq(df, 1, Len(df) - 1)), df[Len(df)])

\* df.sort_values(by=['OpportunityScore', 'CapRate (%)'], ascending=[False, False]):
\* with two keys pandas sorts by a lexsort, which is stable
RECURSIVE sort_values(_)
sort_values(df) ==
    IF df = <<>> THEN <<>>
    ELSE InsertStable(sort_values(SubSeq(df, 1, Len(df) - 1)), df[Len(df)])

\* line 111: the columns kept for display (MatchScore, OldEquipment and
\* HighCapacity are dropped); the row label stays
DISPLAY_COLUMNS ==
    {"OpportunityScore", "Title", "Neighborhood", "Price", "CashFlow", "CapRate",
     "RealEstateIncluded", "SellerMotivation", "Location", "Description", "Lat", "Long"}

select_columns(df) ==
    [k \in DOMAIN df |-> [c \in DISPLAY_COLUMNS \cup {"index"} |-> df[k][c]]]

\* lines 105-113: an empty list gives a frame without columns, on which
\* sort_values raises KeyError
rank(rows) ==
    IF rows = <<>> THEN Exception("KeyError")
    ELSE [df |-> select_columns(sort_values(DataFrame(rows)))]

run_acquisition_engine(listings) ==
    LET looped == engine_loop(listings, 1, <<>>)
    IN  IF IsException(looped) THEN looped
        ELSE rank(looped.processed_data)

\* line 119: df_targets.rename(columns={'Lat': 'latitude', 'Long': 'longitude'})
rename_row(row) ==
    [c \in (DOMAIN row \ {"Lat", "Long"}) \cup {"latitude", "longitude"} |->
        IF c = "latitude" THEN row["Lat"]
        ELSE IF c = "longitude" THEN row["Long"]
        ELSE row[c]]

rename(df) == [k \in DOMAIN df |-> rename_row(df[k])]

----------------------------------------------------------------------------
(* Sidebar filters and KPIs *)

\* the defaults of the four sidebar controls; min_score is in whole points,
\* min_cap_rate in hundredths of a percent
DefaultCriteria ==
    [selected_hoods |-> Range(TARGET_NEIGHBORHOODS), min_score |-> 70,
     re_filter |-> TRUE, min_cap_rate |-> 0]

\* df[df['Neighborhood'].isin(selected_hoods)]
filter_hoods(df, selected_hoods) ==
    SelectSeq(df, LAMBDA row : row.Neighborhood \in selected_hoods)

\* keeps the rows that reach min_score percent of the frame's best score
filter_score_relative(df, min_score) ==
    SelectSeq(df, LAMBDA row :
        \A k \in DOMAIN df : row.OpportunityScore * 100 >= min_score * df[k].OpportunityScore)

\* the threshold compared with > instead of >=
filter_score_strict(df, min_score) ==
    SelectSeq(df, LAMBDA row : row.OpportunityScore > min_score * 100)

\* df[df['OpportunityScore'] >= min_score]
filter_score(df, min_score) ==
    SelectSeq(df, LAMBDA row : row.OpportunityScore >= min_score * 100)

\* df[df['RealEstateIncluded'] == True]
filter_real_estate(df) ==
    SelectSeq(df, LAMBDA row : row.RealEstateIncluded = TRUE)

\* df[df['CapRate (%)'] >= min_cap_rate]
filter_cap_rate(df, min_cap_rate) ==
    SelectSeq(df, LAMBDA row : row.CapRate >= min_cap_rate)

\* the filters narrowing df_targets itself instead of a new frame
apply_filters_in_place(targets, c) ==
    LET f1 == filter_hoods(targets, c.selected_hoods)
        f2 == filter_score(f1, c.min_score)
        f3 == IF c.re_filter THEN filter_real_estate(f2) ELSE f2
        f4 == filter_cap_rate(f3, c.min_cap_rate)
    IN  [df_targets |-> f4, df_filtered |-> f4]

\* lines 137-141: the bindings of df_targets and df_filtered after the filters
apply_filters(targets, c) ==
    LET f1 == filter_hoods(targets, c.selected_hoods)
        f2 == filter_score(f1, c.min_score)
        f3 == IF c.re_filter THEN filter_real_estate(f2) ELSE f2
        f4 == filter_cap_rate(f3, c.min_cap_rate)
    IN  [df_targets |-> targets, df_filtered |-> f4]

RECURSIVE SumOf(_, _)
SumOf(df, column) ==
    IF df = <<>> THEN 0
    ELSE SumOf(SubSeq(df, 1, Len(df) - 1), column) + df[Len(df)][column]

max(df, column) ==
    CHOOSE m \in {df[k][column] : k \in DOMAIN df} :
        \A k \in DOMAIN df : df[k][column] <= m

\* f"{mean:.2f}": the hundredths nearest to total / n.  The mean is computed in
\* binary floating point, so an exact half may print as either neighbour.
format_2f(total, n) ==
    {q \in {total \div n, total \div n + 1} :
        2 * (n * q - total) <= n /\ 2 * (total - n * q) <= n}

\* the KPIs without the guards against an empty frame on the average
kpis_unguarded_average(df, avg) ==
    [count |-> Len(df),
     highest |-> IF df # <<>> THEN max(df, "OpportunityScore") ELSE 0,
     average |-> [percent |-> avg],
     real_estate |->
        IF df # <<>> THEN Len(SelectSeq(df, LAMBDA row : row.RealEstateIncluded)) ELSE 0]

\* lines 147-150, avg being the printed mean
kpis(df, avg) ==
    [count |-> Len(df),
     highest |-> IF df # <<>> THEN max(df, "OpportunityScore") ELSE 0,
     average |-> IF df # <<>> THEN [percent |-> avg] ELSE [text |-> "N/A"],
     real_estate |->
        IF df # <<>> THEN Len(SelectSeq(df, LAMBDA row : row.RealEstateIncluded)) ELSE 0]

----------------------------------------------------------------------------
(* Inputs *)

MOCK_SCRAPED_DATA == <<
    [Title |-> "Profitable Laundromat, Owner Retiring",
     Location |-> "2800 N. Milwaukee Ave, Chicago, IL",
     Price |-> <<"$", "7", "5", "0", ",", "0", "0", "0">>,
     CashFlow |-> <<"$", "1", "5", "0", ",", "0", "0", "0">>,
     Description |-> <<"High volume store", "old equipment", "Real estate included", "Owner retiring", "Great for a new concept build-out">>,
     Lat |-> 41933, Long |-> -87712],
    [Title |-> "Coin Laundry Business Only - Great Lease",
     Location |-> "3500 W. Fullerton Ave, Chicago, IL",
     Price |-> <<"$", "2", "0", "0", ",", "0", "0", "0">>,
     CashFlow |-> <<"$", "8", "0", ",", "0", "0", "0">>,
     Description |-> <<"Lease only", "Equipment is 10 years old", "No real estate", "needs quick sale">>,
     Lat |-> 41924, Long |-> -87724],
    [Title |-> "Modern Washateria near Cicero",
     Location |-> "5000 W. North Ave, Chicago, IL",
     Price |-> <<"$", "9", "0", "0", ",", "0", "0", "0">>,
     CashFlow |-> <<"$", "1", "8", "0", ",", "0", "0", "0">>,
     Description |-> <<"Fully updated", "high-capacity", "moving out of state", "No real estate">>,
     Lat |-> 41910, Long |-> -87749],
    [Title |-> "Established Laundry in Logan Square",
     Location |-> "2500 N. Central Park Ave, Chicago, IL",
     Price |-> <<"$", "4", "5", "0", ",", "0", "0", "0">>,
     CashFlow |-> <<"$", "1", "0", "0", ",", "0", "0", "0">>,
     Description |-> <<"Solid neighborhood business", "Real estate included", "Older machines">>,
     Lat |-> 41921, Long |-> -87715],
    [Title |-> "Wash & Fold Opportunity in North Suburb",
     Location |-> "Evanston, IL",
     Price |-> <<"$", "3", "0", "0", ",", "0", "0", "0">>,
     CashFlow |-> <<"$", "6", "0", ",", "0", "0", "0">>,
     Description |-> <<"Not in target area", "Real estate not included">>,
     Lat |-> 42045, Long |-> -87687],
    [Title |-> "Prime Hermosa Corner Lot Laundromat",
     Location |-> "4000 W. Diversey Ave, Chicago, IL",
     Price |-> <<"$", "1", ",", "2", "0", "0", ",", "0", "0", "0">>,
     CashFlow |-> <<"$", "2", "0", "0", ",", "0", "0", "0">>,
     Description |-> <<"Massive potential", "Real estate included", "quick exit", "inefficient machines">>,
     Lat |-> 41932, Long |-> -87730]
>>

\* raw listings of the bounded inputs: a point in Logan Square and one outside
\* every box; a description with three signals and one with none; a cap rate
\* of 20.00, one of 6.67 and a malformed price
PoolPoints == {<<41933, -87712>>, <<42045, -87687>>}

PoolDescriptions ==
    {<<"Real estate included", "Owner retiring", "old equipment">>, <<"No real estate">>}

PoolFinancials ==
    {[Price |-> <<"$", "5">>, CashFlow |-> <<"$", "1">>],
     [Price |-> <<"$", "1", "5">>, CashFlow |-> <<"$", "1">>],
     [Price |-> <<"N", "/", "A">>, CashFlow |-> <<"$", "1">>]}

RawPool ==
    {[Title |-> "T", Location |-> "Chicago, IL", Price |-> f.Price,
      CashFlow |-> f.CashFlow, Description |-> d, Lat |-> p[1], Long |-> p[2]] :
        f \in PoolFinancials, d \in PoolDescriptions, p \in PoolPoints}

\* the processed listings of the raw pool, each with the geo_data of its point
ProcessedPool ==
    {processed_listing(l, automated_geocoding(l.Location, l.Lat, l.Long)) : l \in RawPool}

\* the characters of the Price and CashFlow texts given to the financial step
TextAlphabet == {"$", ",", "0", "5", "N"}

HoodOptions == Range(TARGET_NEIGHBORHOODS) \cup {"Outside Target"}

----------------------------------------------------------------------------
(* The script: line 118, the engine on its input *)

Unset ==
    /\ processed_data = <<>>
    /\ df_targets = None
    /\ criteria = DefaultCriteria
    /\ df_filtered = None
    /\ kpi = None
    /\ raised = "None"
    /\ arg = None
    /\ ret = None

Init ==
    /\ pc = "line118"
    /\ data \in BoundedSeq(RawPool, MaxListings) \cup {MOCK_SCRAPED_DATA}
    /\ Unset

\* lines 118-119: an exception of the engine ends the script
Line118 ==
    /\ pc = "line118"
    /\ LET r == run_acquisition_engine(data)
       IN  IF IsException(r)
           THEN /\ raised' = r.exc
                /\ pc' = "aborted"
                /\ UNCHANGED df_targets
           ELSE /\ df_targets' = rename(r.df)
                /\ pc' = "sidebar"
                /\ UNCHANGED raised
    /\ UNCHANGED <<data, processed_data, criteria, df_filtered, kpi, arg, ret>>

Next == Line118

Spec == Init /\ [][Next]_vars

----------------------------------------------------------------------------
(* automated_geocoding on the points of a grid around the boxes *)

GridLat == (41900 - GeoMargin) .. (41940 + GeoMargin)

GridLong == (-87750 - GeoMargin) .. (-87700 + GeoMargin)

UnsetBut(a) ==
    /\ data = <<>>
    /\ processed_data = <<>>
    /\ df_targets = None
    /\ criteria = DefaultCriteria
    /\ df_filtered = None
    /\ kpi = None
    /\ raised = "None"
    /\ arg = a
    /\ ret = None

InitGeo ==
    /\ pc = "geocoding"
    /\ \E lat \in GridLat, long \in GridLong :
          UnsetBut([location_text |-> "Chicago, IL", lat |-> lat, long |-> long])

Geocode ==
    /\ pc = "geocoding"
    /\ ret' = automated_geocoding(arg.location_text, arg.lat, arg.long)
    /\ pc' = "returned"
    /\ UNCHANGED <<data, processed_data, df_targets, criteria, df_filtered, kpi,
                   raised, arg>>

NextGeo == Geocode

SpecGeo == InitGeo /\ [][NextGeo]_vars

----------------------------------------------------------------------------
(* calculate_opportunity_score on every listing of the four names, four match
   scores and sixteen signal combinations *)

MatchScores == {0, 85, 90, 100}

InitScore ==
    /\ pc = "scoring"
    /\ \E a \in [Neighborhood : HoodOptions, MatchScore : MatchScores,
                  RealEstateIncluded : BOOLEAN, SellerMotivation : BOOLEAN,
                  OldEquipment : BOOLEAN, HighCapacity : BOOLEAN] : UnsetBut(a)

Score ==
    /\ pc = "scoring"
    /\ ret' = Value(calculate_opportunity_score(arg))
    /\ pc' = "returned"
    /\ UNCHANGED <<data, processed_data, df_targets, criteria, df_filtered, kpi,
                   raised, arg>>

NextScore == Score

SpecScore == InitScore /\ [][NextScore]_vars

----------------------------------------------------------------------------
(* Step 4 and the append of line 103 on every pair of bounded texts *)

InitFin ==
    /\ pc = "step4"
    /\ \E price \in BoundedSeq(TextAlphabet, MaxTextLen),
          cf \in BoundedSeq(TextAlphabet, MaxTextLen) :
          UnsetBut([Price |-> price, CashFlow |-> cf])

Financial ==
    /\ pc = "step4"
    /\ LET cap == financial_step(arg)
       IN  IF IsException(cap)
           THEN /\ raised' = cap.exc
                /\ pc' = "aborted"
                /\ UNCHANGED processed_data
           ELSE /\ processed_data' = Append(processed_data, ("CapRate" :> cap.val) @@ arg)
                /\ pc' = "appended"
                /\ UNCHANGED raised
    /\ UNCHANGED <<data, df_targets, criteria, df_filtered, kpi, arg, ret>>

NextFin == Financial

SpecFin == InitFin /\ [][NextFin]_vars

----------------------------------------------------------------------------
(* Lines 105-113 on every bounded list of processed listings *)

InitRank ==
    /\ pc = "line105"
    /\ data = <<>>
    /\ processed_data \in BoundedSeq(ProcessedPool, MaxListings)
    /\ df_targets = None
    /\ criteria = DefaultCriteria
    /\ df_filtered = None
    /\ kpi = None
    /\ raised = "None"
    /\ arg = None
    /\ ret = None

Rank ==
    /\ pc = "line105"
    /\ LET r == rank(processed_data)
       IN  IF IsException(r)
           THEN /\ raised' = r.exc
                /\ pc' = "aborted"
                /\ UNCHANGED df_targets
           ELSE /\ df_targets' = r.df
                /\ pc' = "returned"
                /\ UNCHANGED raised
    /\ UNCHANGED <<data, processed_data, criteria, df_filtered, kpi, arg, ret>>

NextRank == Rank

SpecRank == InitRank /\ [][NextRank]_vars

----------------------------------------------------------------------------
(* Lines 126-150 on every ranked frame of processed listings: the script
   reruns from the top on every change of a sidebar control *)

ScoreStops == {0, 70}

CapRateStops == {0, 2000}

\* the names the multiselect offers: df_targets['Neighborhood'].unique()
Options(targets) == {targets[k].Neighborhood : k \in DOMAIN targets}

\* the criteria one change of one control away from c
Changes(targets, c) ==
    {[c EXCEPT !.selected_hoods = c.selected_hoods \ {h}] : h \in c.selected_hoods}
    \cup {[c EXCEPT !.selected_hoods = c.selected_hoods \cup {h}] :
             h \in Options(targets) \ c.selected_hoods}
    \cup {[c EXCEPT !.min_score = m] : m \in ScoreStops \ {c.min_score}}
    \cup {[c EXCEPT !.re_filter = ~c.re_filter]}
    \cup {[c EXCEPT !.min_cap_rate = m] : m \in CapRateStops \ {c.min_cap_rate}}

InitFilter ==
    /\ pc = "sidebar"
    /\ data = <<>>
    /\ processed_data = <<>>
    /\ df_targets \in {rename(rank(rows).df) :
                         rows \in BoundedSeq(ProcessedPool, MaxListings) \ {<<>>}}
    /\ criteria = DefaultCriteria
    /\ df_filtered = None
    /\ kpi = None
    /\ raised = "None"
    /\ arg = None
    /\ ret = None

\* lines 136-150 under the criteria c
Render(c) ==
    LET bound == apply_filters(df_targets, c)
        shown == bound.df_filtered
    IN  /\ \E avg \in (IF shown = <<>> THEN {0}
                        ELSE format_2f(SumOf(shown, "CapRate"), Len(shown))) :
              kpi' = kpis(shown, avg)
        /\ criteria' = c
        /\ df_targets' = bound.df_targets
        /\ df_filtered' = shown
        /\ pc' = "rendered"
        /\ UNCHANGED <<data, processed_data, raised, arg, ret>>

FirstRun ==
    /\ pc = "sidebar"
    /\ Render(criteria)

ControlChange ==
    /\ pc = "rendered"
    /\ \E c \in Changes(df_targets, criteria) : Render(c)

NextFilter == FirstRun \/ ControlChange

SpecFilter == InitFilter /\ [][NextFilter]_vars

----------------------------------------------------------------------------
(* The claims *)

\* C1, as claimed: for every sequence of raw listings with numeric Lat and Long
\* the engine ends without an exception and returns one record per listing,
\* each with Neighborhood, MatchScore, OpportunityScore and CapRate.
C1_EngineReturnsOneRecordPerListing ==
    pc # "line118" =>
        /\ raised = "None"
        /\ Len(df_targets) = Len(data)
        /\ \A k \in DOMAIN df_targets :
              {"Neighborhood", "MatchScore", "OpportunityScore", "CapRate"}
                  \subseteq DOMAIN df_targets[k]

\* the ordered rule table of the classifier: Logan Square, Avondale, Hermosa
RuleTable ==
    <<[lat |-> <<41920, 41940>>, long |-> <<-87730, -87700>>,
       result |-> [Neighborhood |-> "Logan Square", MatchScore |-> 100]],
      [lat |-> <<41920, 41930>>, long |-> <<-87740, -87720>>,
       result |-> [Neighborhood |-> "Avondale", MatchScore |-> 90]],
      [lat |-> <<41900, 41920>>, long |-> <<-87750, -87730>>,
       result |-> [Neighborhood |-> "Hermosa", MatchScore |-> 85]]>>

InBox(rule, lat, long) ==
    /\ rule.lat[1] <= lat /\ lat <= rule.lat[2]
    /\ rule.long[1] <= long /\ long <= rule.long[2]

Matching(lat, long) == {k \in DOMAIN RuleTable : InBox(RuleTable[k], lat, long)}

\* C2: the classifier returns the result of the first rule, in the order Logan
\* Square, Avondale, Hermosa, whose box (both ends inclusive) holds the point,
\* and ('Outside Target', 0.0) for a point in no box.
C2_FirstMatchingRuleWins ==
    pc = "returned" =>
        LET m == Matching(arg.lat, arg.long)
        IN  IF m = {}
            THEN ret = [Neighborhood |-> "Outside Target", MatchScore |-> 0]
            ELSE \E k \in m : /\ \A j \in m : k <= j
                              /\ ret = RuleTable[k].result

\* C2's case: the point on the shared corner of all three boxes, classified by
\* the first rule.
C2_Witness ==
    /\ pc = "returned"
    /\ Cardinality(Matching(arg.lat, arg.long)) >= 2
    /\ arg.lat = 41920 /\ arg.long = -87730
    /\ ret.Neighborhood = "Logan Square"

Stripped(text) == SelectSeq(text, LAMBDA c : c \notin {"$", ","})

Numeric(text) ==
    /\ Stripped(text) # <<>>
    /\ \A k \in DOMAIN Stripped(text) : Stripped(text)[k] \in Digits

ParsesToZero(text) ==
    /\ Numeric(text)
    /\ \A k \in DOMAIN Stripped(text) : Stripped(text)[k] = "0"

\* C3, as claimed: when the price or cash-flow text is not numeric, or the
\* price parses to zero, the step raises nothing, the cap rate is 0.0 and the
\* listing is appended to processed_data.
C3_DegradedListingGetsZeroCapRate ==
    (pc # "step4" /\ (~Numeric(arg.Price) \/ ~Numeric(arg.CashFlow)
                        \/ ParsesToZero(arg.Price))) =>
        /\ raised = "None"
        /\ Len(processed_data) = 1
        /\ processed_data[1].CapRate = 0

\* C4: with the default weights the opportunity score is within [0, 100] for
\* every classification result and every combination of the four signals.
C4_ScoreWithinRange ==
    pc = "returned" => 0 <= ret.val /\ ret.val <= 100 * 100

\* C4's case: a listing the classifier puts in Logan Square with every signal
\* set scores the top of the range.
C4_Witness ==
    /\ pc = "returned"
    /\ arg.Neighborhood = "Logan Square" /\ arg.MatchScore = 100
    /\ arg.RealEstateIncluded /\ arg.SellerMotivation
    /\ arg.OldEquipment /\ arg.HighCapacity
    /\ ret.val = 100 * 100

\* C5: the score is the sum of four independent terms: LocationMatch times
\* MatchScore for a target neighborhood only, RealEstateIncluded,
\* SellerMotivation, and HighCapacity once if OldEquipment or HighCapacity.
C5_ScoreIsSumOfFourTerms ==
    pc = "returned" =>
        ret.val =
            (IF arg.Neighborhood \in {"Logan Square", "Avondale", "Hermosa"}
             THEN 30 * arg.MatchScore ELSE 0)
            + (IF arg.RealEstateIncluded THEN 4000 ELSE 0)
            + (IF arg.SellerMotivation THEN 2000 ELSE 0)
            + (IF arg.OldEquipment \/ arg.HighCapacity THEN 1000 ELSE 0)

\* C5's case: outside the target names a positive MatchScore adds nothing, and
\* both equipment signals together add the weight once.
C5_Witness ==
    /\ pc = "returned"
    /\ arg.Neighborhood = "Outside Target" /\ arg.MatchScore = 100
    /\ ~arg.RealEstateIncluded /\ ~arg.SellerMotivation
    /\ arg.OldEquipment /\ arg.HighCapacity
    /\ ret.val = 1000

\* the row of the returned frame labelled k - 1 is processed listing k
SameListing(row, listing) == \A c \in DISPLAY_COLUMNS : row[c] = listing[c]

\* C6: the returned frame holds the processed listings ordered by opportunity
\* score descending, then cap rate descending, and rows equal in both keep
\* their input order.
C6_RankedStably ==
    pc = "returned" =>
        /\ Len(df_targets) = Len(processed_data)
        /\ {df_targets[k].index : k \in DOMAIN df_targets} = 0 .. (Len(processed_data) - 1)
        /\ \A k \in DOMAIN df_targets :
              SameListing(df_targets[k], processed_data[df_targets[k].index + 1])
        /\ \A i, j \in DOMAIN df_targets :
              i < j =>
                \/ df_targets[i].OpportunityScore > df_targets[j].OpportunityScore
                \/ /\ df_targets[i].OpportunityScore = df_targets[j].OpportunityScore
                   /\ df_targets[i].CapRate > df_targets[j].CapRate
                \/ /\ df_targets[i].OpportunityScore = df_targets[j].OpportunityScore
                   /\ df_targets[i].CapRate = df_targets[j].CapRate
                   /\ df_targets[i].index < df_targets[j].index

\* C6's case: two listings of equal score and cap rate returned in their input
\* order.
C6_Witness ==
    /\ pc = "returned"
    /\ Len(df_targets) = 2
    /\ df_targets[1].OpportunityScore = df_targets[2].OpportunityScore
    /\ df_targets[1].CapRate = df_targets[2].CapRate
    /\ df_targets[1].index = 0 /\ df_targets[2].index = 1

Qualifies(row, c) ==
    /\ row.Neighborhood \in c.selected_hoods
    /\ row.OpportunityScore >= c.min_score * 100
    /\ c.re_filter => row.RealEstateIncluded
    /\ row.CapRate >= c.min_cap_rate

\* C7: after any sequence of control changes the visible frame is the rows of
\* the full frame that meet all of the current criteria, in the full frame's
\* order, whatever the criteria were before.
C7_VisibleSubsetIsConjunction ==
    pc = "rendered" =>
        df_filtered = SelectSeq(df_targets, LAMBDA row : Qualifies(row, criteria))

\* C7's case: controls changed, some rows shown and some held back.
C7_Witness ==
    /\ pc = "rendered"
    /\ criteria.selected_hoods # DefaultCriteria.selected_hoods
    /\ criteria.min_cap_rate # DefaultCriteria.min_cap_rate
    /\ df_filtered # <<>>
    /\ Len(df_filtered) < Len(df_targets)

\* C8: the neighborhood-set filter and the score-threshold filter commute: on
\* every ranked frame, for every set of names and every threshold of the
\* slider, and on every rendered page for the names and threshold in force.
C8_FiltersCommute ==
    /\ pc = "sidebar" =>
        \A hoods \in SUBSET HoodOptions, min_score \in 0 .. 100 :
            filter_score(filter_hoods(df_targets, hoods), min_score)
                = filter_hoods(filter_score(df_targets, min_score), hoods)
    /\ pc = "rendered" =>
        filter_score(filter_hoods(df_targets, criteria.selected_hoods), criteria.min_score)
            = filter_hoods(filter_score(df_targets, criteria.min_score),
                           criteria.selected_hoods)

\* C8's case: a rendered page on which each of the two filters alone removes a
\* different row and the two together remove both.
C8_Witness ==
    /\ pc = "rendered"
    /\ Len(df_targets) = 2
    /\ Len(filter_hoods(df_targets, criteria.selected_hoods)) = 1
    /\ Len(filter_score(df_targets, criteria.min_score)) = 1
    /\ filter_score(filter_hoods(df_targets, criteria.selected_hoods),
                    criteria.min_score) = <<>>
    /\ df_filtered = <<>>

\* C9: applying the filters leaves the full scored frame as it was: the same
\* rows with the same values in the same order.
C9_FiltersLeaveTargetsUnchanged ==
    [][pc' = "rendered" => df_targets' = df_targets]_vars

\* C9's case: the filters held rows back from the view while the full frame
\* kept them.
C9_Witness ==
    /\ pc = "rendered"
    /\ Len(df_targets) = 2
    /\ Len(df_filtered) = 1

\* C10: on an empty filtered frame the KPIs are 0, 0, 'N/A' and 0; otherwise
\* they are the count, the highest score, the mean cap rate (as printed, to
\* two decimals) and the number of rows with real estate included.
C10_KpisOfFilteredFrame ==
    pc = "rendered" =>
        IF df_filtered = <<>>
        THEN kpi = [count |-> 0, highest |-> 0, average |-> [text |-> "N/A"],
                    real_estate |-> 0]
        ELSE LET n == Len(df_filtered)
                 total == SumOf(df_filtered, "CapRate")
             IN  /\ kpi.count = n
                 /\ \E k \in 1 .. n : kpi.highest = df_filtered[k].OpportunityScore
                 /\ \A k \in 1 .. n : kpi.highest >= df_filtered[k].OpportunityScore
                 /\ 2 * (n * kpi.average.percent - total) <= n
                 /\ 2 * (total - n * kpi.average.percent) <= n
                 /\ kpi.real_estate =
                        Cardinality({k \in 1 .. n : df_filtered[k].RealEstateIncluded})

\* C10's case: criteria that no listing of a non-empty frame meets.
C10_Witness ==
    /\ pc = "rendered"
    /\ df_targets # <<>>
    /\ df_filtered = <<>>
    /\ kpi.average = [text |-> "N/A"]

====
